---- MODULE Spec2Model ----
(***************************************************************************)
(* Model of validation/validate_sed_contents.py: the recursive walk of     *)
(* _verify_sed_files over starSED/, galaxySED/ and agnSED/, and the check   *)
(* it applies to every file (numeric load, NaN test, header test).          *)
(*                                                                         *)
(* Strings are sequences of atoms (one-character strings, or a whole name  *)
(* component such as "starSED" or ".gz"), so that line[0], endswith and the *)
(* whitespace split of the loader are computed, not assumed.                *)
(***************************************************************************)
EXTENDS Integers, Sequences, FiniteSets, TLC

VARIABLES
    fs,          \* the directory tree on disk: listings and file contents
    py3,         \* TRUE: the interpreter is Python 3 (gzip.open(..,'r') yields bytes)
    pc,          \* "main" | "running" | "done" | "aborted"
    sub_dir,     \* index into SubDirs of the loop of __main__
    stack,       \* the call stack of _verify_sed_files, innermost frame last
    failures,    \* the list `failures` of __main__
    abortCause,  \* which call raised the exception that ended the run
    checked,     \* history: the files the else-branch ran on, in order
    hdrChecked   \* history: the files on which the header check was entered

vars == <<fs, py3, pc, sub_dir, stack, failures, abortCause, checked, hdrChecked>>

---------------------------------------------------------------------------
(* Bounds of the model *)

MaxLines == 3
MaxDepth == 5
MaxFiles == 2

---------------------------------------------------------------------------
(* Strings *)

endswith(s, suffix) ==
    /\ Len(s) >= Len(suffix)
    /\ SubSeq(s, Len(s) - Len(suffix) + 1, Len(s)) = suffix

startswith(s, prefix) ==
    /\ Len(s) >= Len(prefix)
    /\ SubSeq(s, 1, Len(prefix)) = prefix

\* os.path.join(dir_name, file_name)
join(dir_name, file_name) == dir_name \o <<"/">> \o file_name

root_dir == <<"/sed">>

SubDirs == << <<"starSED">>, <<"galaxySED">>, <<"agnSED">> >>

GzSuffix == <<".gz">>

---------------------------------------------------------------------------
(* The lines a file is made of *)

HdrGood    == <<"#", "F", ")", "\n">>
HdrBad     == <<"#", "F", "\n">>
HdrSpace   == <<"#", "F", ")", " ", "\n">>
RowGood    == <<"1", " ", "2", "\n">>
RowNaNFlux == <<"1", " ", "x", "\n">>
RowNaNWv   == <<"x", " ", "2", "\n">>
Row3       == <<"1", " ", "2", " ", "3", "\n">>
Blank      == <<"\n">>

LineKinds == {HdrGood, HdrBad, HdrSpace, RowGood, RowNaNFlux, RowNaNWv, Row3, Blank}

Whitespace == {" ", "\n"}
Digits     == {"0", "1", "2", "3", "4", "5", "6", "7", "8", "9"}

---------------------------------------------------------------------------
(* np.genfromtxt(full_name, dtype=[('wv', float), ('flux', float)]) *)

\* mutant: the comment marker is not honoured
StripCommentKeep(line) == line

\* the text of a line before its first '#'
RECURSIVE StripComment(_)
StripComment(line) ==
    IF line = <<>> \/ Head(line) = "#" THEN <<>>
    ELSE <<Head(line)>> \o StripComment(Tail(line))

\* line.split(): the maximal runs of non-whitespace characters
RECURSIVE SplitFrom(_, _)
SplitFrom(line, cur) ==
    IF line = <<>> THEN (IF cur = <<>> THEN <<>> ELSE <<cur>>)
    ELSE IF Head(line) \in Whitespace
         THEN (IF cur = <<>> THEN <<>> ELSE <<cur>>) \o SplitFrom(Tail(line), <<>>)
         ELSE SplitFrom(Tail(line), Append(cur, Head(line)))

split(line) == SplitFrom(line, <<>>)

\* the loose float converter: a token that is no number becomes NaN
tofloat(tok) ==
    IF \A i \in 1..Len(tok) : tok[i] \in Digits
    THEN [isnan |-> FALSE]
    ELSE [isnan |-> TRUE]

\* the rows of the file: comment and empty lines are skipped
RECURSIVE RowsOf(_)
RowsOf(lines) ==
    IF lines = <<>> THEN <<>>
    ELSE LET toks == split(StripComment(Head(lines)))
         IN  (IF toks = <<>> THEN <<>> ELSE <<toks>>) \o RowsOf(Tail(lines))

\* raises when the file cannot be read or a row has not exactly two columns
genfromtxt(file) ==
    LET rows == RowsOf(file.lines)
    IN  IF file.garbled \/ \E i \in 1..Len(rows) : Len(rows[i]) # 2
        THEN [raised |-> TRUE, wv |-> <<>>, flux |-> <<>>]
        ELSE [raised |-> FALSE,
              wv   |-> [i \in 1..Len(rows) |-> tofloat(rows[i][1])],
              flux |-> [i \in 1..Len(rows) |-> tofloat(rows[i][2])]]

\* np.isnan(column).any()
isnan_any(column) == \E i \in 1..Len(column) : column[i].isnan

\* mutant: only the wavelength column is tested
HasNaNDataWvOnly(data) == isnan_any(data.wv)

\* np.isnan(data['wv']).any() or np.isnan(data['flux']).any()
HasNaNData(data) == isnan_any(data.wv) \/ isnan_any(data.flux)

---------------------------------------------------------------------------
(* The header check: the loop over the lines of the opened file *)

\* line[0] == '#': a line of a bytes stream yields an int, never equal to '#'
FirstIsHash(line, asBytes) == ~asBytes /\ line[1] = "#"

\* mutant: the loop has no break after the first data line
RECURSIVE HeaderLoopNoBreak(_, _, _)
HeaderLoopNoBreak(lines, prev_line, asBytes) ==
    IF lines = <<>> THEN <<>>
    ELSE IF FirstIsHash(Head(lines), asBytes)
         THEN HeaderLoopNoBreak(Tail(lines), <<Head(lines)>>, asBytes)
         ELSE (IF prev_line = <<>> THEN <<>>
               ELSE IF asBytes THEN <<"raise">>
               ELSE IF ~endswith(prev_line[1], <<")", "\n">>) THEN <<"header">>
               ELSE <<>>)
              \o HeaderLoopNoBreak(Tail(lines), prev_line, asBytes)

\* prev_line is <<>> for None and <<line>> otherwise.
\* The result lists what the loop does before it ends: "header" for an appended
\* header failure, "raise" for an exception (bytes.endswith(str) is a TypeError).
RECURSIVE HeaderLoop(_, _, _)
HeaderLoop(lines, prev_line, asBytes) ==
    IF lines = <<>> THEN <<>>
    ELSE IF FirstIsHash(Head(lines), asBytes)
         THEN HeaderLoop(Tail(lines), <<Head(lines)>>, asBytes)
         ELSE IF prev_line = <<>> THEN <<>>
              ELSE IF asBytes THEN <<"raise">>
              ELSE IF ~endswith(prev_line[1], <<")", "\n">>) THEN <<"header">>
              ELSE <<>>

\* mutant: prev_line starts as the empty string instead of None
InitialPrevLineEmpty == << <<>> >>

\* prev_line = None
InitialPrevLine == <<>>

\* gzip.open(name, 'r') is a binary stream under Python 3, open(name, 'r') is text
OpensAsBytes(full_name, isPy3) == endswith(full_name, GzSuffix) /\ isPy3

HeaderCheck(full_name, file, isPy3) ==
    HeaderLoop(file.lines, InitialPrevLine, OpensAsBytes(full_name, isPy3))

---------------------------------------------------------------------------
(* The else-branch of the loop of _verify_sed_files, for one file.          *)
(* readRaises: the open or the read of the header check raises.            *)
(* Result: the records appended, whether the header check was entered, and *)
(* whether an exception left the function.                                  *)

\* mutant: the except branch has no continue
FileCheckNoContinue(full_name, file, isPy3, readRaises) ==
    LET data == genfromtxt(file)
        first == IF data.raised THEN << <<full_name, "could not load">> >>
                 ELSE IF HasNaNData(data) THEN << <<full_name, "nan">> >> ELSE <<>>
        hdr  == HeaderCheck(full_name, file, isPy3)
        hdrRaises == readRaises \/ \E i \in 1..Len(hdr) : hdr[i] = "raise"
    IN  IF hdrRaises
        THEN [recs |-> first, hdr |-> TRUE, raised |-> TRUE]
        ELSE [recs |-> first \o [i \in 1..Len(hdr) |-> <<full_name, hdr[i]>>],
              hdr |-> TRUE, raised |-> FALSE]

FileCheck(full_name, file, isPy3, readRaises) ==
    LET data == genfromtxt(file)
        nan  == IF ~data.raised /\ HasNaNData(data)
                THEN << <<full_name, "nan">> >> ELSE <<>>
        hdr  == HeaderCheck(full_name, file, isPy3)
        hdrRaises == readRaises \/ \E i \in 1..Len(hdr) : hdr[i] = "raise"
    IN  IF data.raised
        THEN [recs |-> << <<full_name, "could not load">> >>, hdr |-> FALSE, raised |-> FALSE]
        ELSE IF hdrRaises
        THEN [recs |-> nan, hdr |-> TRUE, raised |-> TRUE]
        ELSE [recs |-> nan \o [i \in 1..Len(hdr) |-> <<full_name, hdr[i]>>],
              hdr |-> TRUE, raised |-> FALSE]

\* mutant: the list returned by the call is dropped
ExtendDrop(list, returned) == list

\* mutant: the list returned by the call is put in front
ExtendFront(list, returned) == returned \o list

\* failures += _verify_sed_files(...)
Extend(list, returned) == list \o returned

---------------------------------------------------------------------------
(* The directory tree *)

isdir(path) == path \in DOMAIN fs.list

NewFrame(dir_name) ==
    [dir_name |-> dir_name, contents |-> fs.list[dir_name], k |-> 1, failures |-> <<>>]

Top == stack[Len(stack)]

full_name_of(frame) == join(frame.dir_name, frame.contents[frame.k])

SetTop(frame) == [stack EXCEPT ![Len(stack)] = frame]

---------------------------------------------------------------------------
(* Files and trees the runs start from *)

TextFiles ==
    UNION {[1..n -> LineKinds] : n \in 0..MaxLines}

Files ==
    {[gz |-> g, garbled |-> FALSE, lines |-> l] : g \in BOOLEAN, l \in TextFiles}
    \cup {[gz |-> g, garbled |-> TRUE, lines |-> <<>>] : g \in BOOLEAN}

FileName(file) == IF file.gz THEN <<"f", ".gz">> ELSE <<"f", ".dat">>

StarDir == join(root_dir, SubDirs[1])
GalDir  == join(root_dir, SubDirs[2])
AgnDir  == join(root_dir, SubDirs[3])

\* one file, one directory below starSED
OneFileTree(file) ==
    [list |-> (StarDir :> << <<"sub">> >>)
              @@ (join(StarDir, <<"sub">>) :> <<FileName(file)>>)
              @@ (GalDir :> <<>>) @@ (AgnDir :> <<>>),
     file |-> (join(join(StarDir, <<"sub">>), FileName(file)) :> file)]

GoodFile    == [gz |-> FALSE, garbled |-> FALSE, lines |-> <<HdrGood, RowGood>>]
NaNBadFile  == [gz |-> FALSE, garbled |-> FALSE, lines |-> <<HdrBad, RowNaNFlux>>]
CorruptFile == [gz |-> FALSE, garbled |-> FALSE, lines |-> <<HdrGood, Row3>>]

RepFiles == {GoodFile, NaNBadFile, CorruptFile}

\* the chain starSED/sub/sub/.../sub
RECURSIVE SpineDir(_)
SpineDir(level) ==
    IF level = 0 THEN StarDir ELSE join(SpineDir(level - 1), <<"sub">>)

SpineDirs == {SpineDir(l) : l \in 0..MaxDepth}

AllDirs == SpineDirs \cup {GalDir, AgnDir}

\* the names a directory may hold, in the order the listing reports them
Candidates(dir) ==
    IF dir = GalDir THEN << <<"g", ".dat">> >>
    ELSE IF dir = AgnDir THEN << <<"a", ".dat">> >>
    ELSE IF dir = SpineDir(MaxDepth) THEN << <<"y", ".dat">>, <<"b", ".dat">> >>
    ELSE << <<"y", ".dat">>, <<"sub">>, <<"b", ".dat">> >>

Slots ==
    UNION {{join(d, Candidates(d)[i]) : i \in 1..Len(Candidates(d))} : d \in AllDirs}
    \ AllDirs

SpineTree(placed) ==
    [list |-> [d \in AllDirs |->
                  LET Present(n) == join(d, n) \in AllDirs \/ join(d, n) \in DOMAIN placed
                  IN  SelectSeq(Candidates(d), Present)],
     file |-> placed]

---------------------------------------------------------------------------
(* Initial states *)

InitRun ==
    /\ py3 \in BOOLEAN
    /\ pc = "main"
    /\ sub_dir = 1
    /\ stack = <<>>
    /\ failures = <<>>
    /\ abortCause = "none"
    /\ checked = <<>>
    /\ hdrChecked = {}

Init ==
    /\ \E file \in Files : fs = OneFileTree(file)
    /\ InitRun

InitTree ==
    /\ \E S \in {T \in SUBSET Slots : Cardinality(T) <= MaxFiles} :
          \E placed \in [S -> RepFiles] : fs = SpineTree(placed)
    /\ InitRun

---------------------------------------------------------------------------
(* Actions *)

\* __main__: failures += _verify_sed_files(os.path.join(root_dir, sub_dir)), the call
MainCall ==
    /\ pc = "main"
    /\ sub_dir <= Len(SubDirs)
    /\ stack' = <<NewFrame(join(root_dir, SubDirs[sub_dir]))>>
    /\ pc' = "running"
    /\ UNCHANGED <<fs, py3, sub_dir, failures, abortCause, checked, hdrChecked>>

\* the entry is a directory: the recursive call
Recurse ==
    /\ pc = "running"
    /\ Top.k <= Len(Top.contents)
    /\ isdir(full_name_of(Top))
    /\ stack' = Append(stack, NewFrame(full_name_of(Top)))
    /\ UNCHANGED <<fs, py3, pc, sub_dir, failures, abortCause, checked, hdrChecked>>

\* os.listdir raises: nothing catches it
ListdirRaises ==
    /\ \/ pc = "main" /\ sub_dir <= Len(SubDirs)
       \/ pc = "running" /\ Top.k <= Len(Top.contents) /\ isdir(full_name_of(Top))
    /\ pc' = "aborted"
    /\ abortCause' = "listdir"
    /\ UNCHANGED <<fs, py3, sub_dir, stack, failures, checked, hdrChecked>>

\* the entry is a file: load, NaN test, header test
CheckFile ==
    /\ pc = "running"
    /\ Top.k <= Len(Top.contents)
    /\ ~isdir(full_name_of(Top))
    /\ \E readRaises \in BOOLEAN :
         LET full_name == full_name_of(Top)
             r == FileCheck(full_name, fs.file[full_name], py3, readRaises)
         IN  /\ checked' = Append(checked, full_name)
             /\ hdrChecked' = IF r.hdr THEN hdrChecked \cup {full_name} ELSE hdrChecked
             /\ IF r.raised
                THEN /\ pc' = "aborted"
                     /\ abortCause' = "header read"
                     /\ stack' = SetTop([Top EXCEPT !.failures = @ \o r.recs])
                ELSE /\ stack' = SetTop([Top EXCEPT !.failures = @ \o r.recs, !.k = @ + 1])
                     /\ UNCHANGED <<pc, abortCause>>
    /\ UNCHANGED <<fs, py3, sub_dir, failures>>

\* return failures, to the recursive call of the enclosing directory
Return ==
    /\ pc = "running"
    /\ Len(stack) > 1
    /\ Top.k > Len(Top.contents)
    /\ LET caller == stack[Len(stack) - 1]
       IN  stack' = [SubSeq(stack, 1, Len(stack) - 1) EXCEPT ![Len(stack) - 1] =
                        [caller EXCEPT !.failures = Extend(@, Top.failures), !.k = @ + 1]]
    /\ UNCHANGED <<fs, py3, pc, sub_dir, failures, abortCause, checked, hdrChecked>>

\* return failures, to __main__
ReturnMain ==
    /\ pc = "running"
    /\ Len(stack) = 1
    /\ Top.k > Len(Top.contents)
    /\ failures' = Extend(failures, Top.failures)
    /\ stack' = <<>>
    /\ sub_dir' = sub_dir + 1
    /\ pc' = "main"
    /\ UNCHANGED <<fs, py3, abortCause, checked, hdrChecked>>

\* the loop of __main__ is over: the report is printed
Report ==
    /\ pc = "main"
    /\ sub_dir > Len(SubDirs)
    /\ pc' = "done"
    /\ UNCHANGED <<fs, py3, sub_dir, stack, failures, abortCause, checked, hdrChecked>>

Next ==
    \/ MainCall
    \/ Recurse
    \/ ListdirRaises
    \/ CheckFile
    \/ Return
    \/ ReturnMain
    \/ Report

Spec == Init /\ [][Next]_vars

SpecTree == InitTree /\ [][Next]_vars

---------------------------------------------------------------------------
(* Vocabulary of the claims: what a file is, read off its lines *)

CommentLines    == {HdrGood, HdrBad, HdrSpace}
NaNRows         == {RowNaNFlux, RowNaNWv}
WrongColumnRows == {Row3}

FilePaths == DOMAIN fs.file

\* the numeric load of the file raises
LoadFails(f) ==
    f.garbled \/ \E i \in 1..Len(f.lines) : f.lines[i] \in WrongColumnRows

\* the file loads and a parsed wavelength or flux is NaN
ContainsNaN(f) ==
    ~LoadFails(f) /\ \E i \in 1..Len(f.lines) : f.lines[i] \in NaNRows

\* the file has a row of data
HasDataRow(f) ==
    \E i \in 1..Len(f.lines) : f.lines[i] \in {RowGood} \cup NaNRows

\* the number of lines beginning with '#' before the first other line
HeaderLen(f) ==
    CHOOSE n \in 0..Len(f.lines) :
        /\ \A i \in 1..n : f.lines[i] \in CommentLines
        /\ n = Len(f.lines) \/ f.lines[n + 1] \notin CommentLines

HasHeader(f) == HeaderLen(f) > 0

\* a line that does not begin with '#' follows the header
ReachesData(f) == HeaderLen(f) < Len(f.lines)

\* the last header line does not end in ')' immediately before the newline
BadLastHeader(f) == HasHeader(f) /\ f.lines[HeaderLen(f)] # HdrGood

WellFormed(f) ==
    /\ ~LoadFails(f)
    /\ ~ContainsNaN(f)
    /\ HasDataRow(f)
    /\ ~BadLastHeader(f)

\* every record held by __main__ or by a frame of the call stack
RECURSIVE FrameRecords(_)
FrameRecords(frames) ==
    IF frames = <<>> THEN <<>>
    ELSE Head(frames).failures \o FrameRecords(Tail(frames))

AllRecords == failures \o FrameRecords(stack)

\* the reasons recorded for a path, in the order of the list
ReasonsOf(list, p) ==
    LET OfPath(r) == r[1] = p
        rs == SelectSeq(list, OfPath)
    IN  [i \in 1..Len(rs) |-> rs[i][2]]

Recorded(list, p, reason) == \E i \in 1..Len(list) : list[i] = <<p, reason>>

---------------------------------------------------------------------------
(* Claims *)

\* C1: a file whose numeric load raises gets exactly one record, (path,
\* 'could not load'), no header check, and no 'nan' or 'header' record.
C1_CouldNotLoadOnly ==
    \A i \in 1..Len(checked) :
        LoadFails(fs.file[checked[i]]) =>
            /\ ReasonsOf(AllRecords, checked[i]) = <<"could not load">>
            /\ checked[i] \notin hdrChecked

C1_Witness ==
    /\ pc = "done"
    /\ \E p \in FilePaths :
          /\ ~fs.file[p].garbled
          /\ LoadFails(fs.file[p])
          /\ BadLastHeader(fs.file[p]) /\ ReachesData(fs.file[p])
          /\ \E i \in 1..Len(fs.file[p].lines) : fs.file[p].lines[i] \in NaNRows
          /\ Recorded(failures, p, "could not load")

\* C2: a file that loads and has a NaN in the wavelength or in the flux column
\* has a (path, 'nan') record in the returned list.
C2_NaNReported ==
    pc = "done" =>
        \A p \in FilePaths :
            ContainsNaN(fs.file[p]) => Recorded(failures, p, "nan")

C2_Witness ==
    /\ pc = "done"
    /\ \E p \in FilePaths :
          /\ ContainsNaN(fs.file[p])
          /\ \A i \in 1..Len(fs.file[p].lines) : fs.file[p].lines[i] # RowNaNWv
          /\ Recorded(failures, p, "nan")

\* C3: a file, plain or '.gz', that loads and whose last header line does not end
\* in ')' before the newline, followed by a data line, has a (path, 'header')
\* record in the returned list.
C3_BadHeaderReported ==
    pc = "done" =>
        \A p \in FilePaths :
            (/\ ~LoadFails(fs.file[p])
             /\ BadLastHeader(fs.file[p])
             /\ HasDataRow(fs.file[p])) => Recorded(failures, p, "header")

\* C4: a well-formed file (two-column data, no NaN, last header line ending in
\* ')' and newline, or no header) gets no record, and a tree of well-formed
\* files yields the empty list.
C4_WellFormedClean ==
    /\ \A p \in FilePaths :
          WellFormed(fs.file[p]) => ReasonsOf(AllRecords, p) = <<>>
    /\ (pc = "done" /\ \A p \in FilePaths : WellFormed(fs.file[p])) => failures = <<>>

C4_Witness ==
    /\ pc = "done"
    /\ failures = <<>>
    /\ \E p \in FilePaths :
          /\ WellFormed(fs.file[p])
          /\ HasHeader(fs.file[p])
          /\ p \in hdrChecked

\* C5: a file with no '#' line before its first data line never gets a
\* (path, 'header') record, whatever its data are.
C5_NoHeaderNoFailure ==
    \A p \in FilePaths :
        ~HasHeader(fs.file[p]) => ~Recorded(AllRecords, p, "header")

C5_Witness ==
    /\ pc = "done"
    /\ \E p \in FilePaths :
          /\ ~HasHeader(fs.file[p])
          /\ ContainsNaN(fs.file[p])
          /\ \E i \in 2..Len(fs.file[p].lines) : fs.file[p].lines[i] = HdrBad
          /\ p \in hdrChecked
          /\ Recorded(failures, p, "nan")

\* a file of the trees whose check must leave a record
Fails(f) ==
    LoadFails(f) \/ ContainsNaN(f) \/ (BadLastHeader(f) /\ HasDataRow(f))

\* C6: when the run completes, every file at every depth under the three roots
\* was checked exactly once, nothing else was, and every failing file is in the
\* final list under its full path.
C6_EveryFileOnce ==
    pc = "done" =>
        /\ \A p \in FilePaths : Cardinality({i \in 1..Len(checked) : checked[i] = p}) = 1
        /\ \A i \in 1..Len(checked) : checked[i] \in FilePaths
        /\ \A p \in FilePaths :
              Fails(fs.file[p]) => \E i \in 1..Len(failures) : failures[i][1] = p

C6_Witness ==
    /\ pc = "done"
    /\ \E p \in FilePaths :
          /\ startswith(p, join(SpineDir(MaxDepth), <<"b">>))
          /\ MaxDepth >= 5
          /\ \E i \in 1..Len(failures) : failures[i][1] = p
    /\ \E p \in FilePaths : ~Fails(fs.file[p])

\* C7: no failure of a step of the check of one file ends the run: the only
\* exception that does is that of a directory that cannot be listed.
C7_OnlyListdirFatal ==
    pc = "aborted" => abortCause = "listdir"

\* C8 as stated: no path occurs in more than one record of the returned list.
C8_OneRecordPerFile ==
    pc = "done" =>
        \A i, j \in 1..Len(failures) :
            i # j => failures[i][1] # failures[j][1]

\* C8 as amended: a path occurs in at most one record, except that a file with a
\* NaN and a failed header check has the two records 'nan' and 'header'.
C8_OneRecordPerKind ==
    pc = "done" =>
        \A p \in FilePaths :
            ReasonsOf(failures, p) \in
                {<<>>, <<"nan">>, <<"header">>, <<"could not load">>, <<"nan", "header">>}

C8_Witness ==
    /\ pc = "done"
    /\ \E p \in FilePaths :
          /\ ReasonsOf(failures, p) = <<"nan", "header">>
          /\ Len(fs.file[p].lines) >= 3

\* C9: a file that loads, has a NaN and a bad last header line has the records
\* (path, 'nan') and (path, 'header'), adjacent and in this order, and no file
\* has more than two records.
C9_BothChecksRecorded ==
    pc = "done" =>
        \A p \in FilePaths :
            /\ Len(ReasonsOf(failures, p)) <= 2
            /\ (ContainsNaN(fs.file[p]) /\ BadLastHeader(fs.file[p])) =>
                  \E i \in 1..(Len(failures) - 1) :
                      /\ failures[i] = <<p, "nan">>
                      /\ failures[i + 1] = <<p, "header">>

\* the entry of the listing of dir that p is, or lies below
EntryOn(dir, p) ==
    CHOOSE i \in 1..Len(fs.list[dir]) :
        LET c == join(dir, fs.list[dir][i])
        IN  startswith(p, c) /\ (Len(p) = Len(c) \/ p[Len(c) + 1] = "/")

\* the listing indices on the way from dir down to p
RECURSIVE Position(_, _)
Position(dir, p) ==
    IF dir = p THEN <<>>
    ELSE <<EntryOn(dir, p)>> \o Position(join(dir, fs.list[dir][EntryOn(dir, p)]), p)

RootIndex(p) ==
    CHOOSE r \in 1..Len(SubDirs) : startswith(p, join(root_dir, SubDirs[r]) \o <<"/">>)

TraversalPosition(p) ==
    <<RootIndex(p)>> \o Position(join(root_dir, SubDirs[RootIndex(p)]), p)

RECURSIVE LexLess(_, _)
LexLess(a, b) ==
    IF b = <<>> THEN FALSE
    ELSE IF a = <<>> THEN TRUE
    ELSE IF Head(a) # Head(b) THEN Head(a) < Head(b)
    ELSE LexLess(Tail(a), Tail(b))

\* C10: the returned list is in traversal order: of two records, the earlier is
\* of the entry listed earlier (roots in the order starSED, galaxySED, agnSED;
\* the records of a directory stand where its entry stands), and the records of
\* one file are 'nan' then 'header'.
C10_TraversalOrder ==
    pc = "done" =>
        \A i, j \in 1..Len(failures) :
            i < j =>
                IF failures[i][1] = failures[j][1]
                THEN failures[i][2] = "nan" /\ failures[j][2] = "header"
                ELSE LexLess(TraversalPosition(failures[i][1]),
                             TraversalPosition(failures[j][1]))

C10_Witness ==
    /\ pc = "done"
    /\ \E i, j \in 1..Len(failures) :
          /\ i < j
          /\ startswith(failures[i][1], join(StarDir, <<"sub", "/">>))
          /\ failures[j][1] = join(StarDir, <<"b", ".dat">>)
    /\ \E i \in 1..(Len(failures) - 1) : failures[i][1] = failures[i + 1][1]

====
